---- MODULE Spec2Model ----
(***************************************************************************)
(* Model of src/dir_contents.rs: the directory scan DirContents::new       *)
(* (get_list_of_dirs followed by get_dirs_with_music) and the two queries  *)
(* same_album_title and same_artists.                                      *)
(*                                                                         *)
(* The file system is the input of the scan.  It does not change while the *)
(* scan runs: a directory that cannot be listed during the walk cannot be  *)
(* listed by get_dirs_with_music either, and an entry whose read fails     *)
(* fails for both.                                                         *)
(***************************************************************************)
EXTENDS Integers, Sequences, FiniteSets, TLC

\* ------------------------------------------------------------------ bounds
NumDirs == 3     \* directories of the tree, the root included
MaxFiles == 2    \* non-directory entries in the whole tree
MaxMusic == 3    \* music files of a DirContents handed to the queries

Dirs == 1..NumDirs
Root == 1
Tracks == {1, 2}
Albums == {"Abbey Road", "abbey road", "Let It Be"}
Artists == {"The Beatles", "Wings"}

\* ------------------------------------------------------------ Option<T>
None == [some |-> FALSE]
Some(v) == [some |-> TRUE, val |-> v]

\* MusicMetadata: album, artist and the track number the ordering reads.
Metadata == [album : Albums, artist : Artists, track : Tracks]

\* --------------------------------------------------- directory entries
\* What reading one entry of a directory listing gives:
\*   kind "err"   reading the entry fails (io::Result::Err)
\*   kind "dir"   the sub-directory sub
\*   kind "other" neither a regular file nor a directory
\*   kind "file"  a regular file; music is what util::is_music_file says
\*                of it and meta what the tag reader gets out of it
ErrEntry == [kind |-> "err", music |-> FALSE, meta |-> None, sub |-> 0]
Special == [kind |-> "other", music |-> FALSE, meta |-> None, sub |-> 0]
Ordinary == [kind |-> "file", music |-> FALSE, meta |-> None, sub |-> 0]
Untagged == [kind |-> "file", music |-> TRUE, meta |-> None, sub |-> 0]
Tagged(m) == [kind |-> "file", music |-> TRUE, meta |-> Some(m), sub |-> 0]
SubDir(c) == [kind |-> "dir", music |-> FALSE, meta |-> None, sub |-> c]

\* The tags of the files of the scanned tree differ in their track number.
ScanTag(t) == [album |-> "Abbey Road", artist |-> "The Beatles", track |-> t]
FileEntries == {ErrEntry, Special, Ordinary, Untagged} \cup {Tagged(ScanTag(t)) : t \in Tracks}

VARIABLES
    parent,                 \* the tree: parent[d] is the directory holding d (0 for the root)
    files,                  \* files[d]: the non-directory entries of d, in listing order
    unreadable,             \* the directories whose listing cannot be opened
    pc,                     \* "start", "scan", "done", "panicked", "query"
    files_and_directories,  \* result of get_list_of_dirs
    idx,                    \* position of the loop of get_dirs_with_music
    dir_contents,           \* the snapshots collected so far
    diag,                   \* what eprintln! has written
    probe,                  \* the DirContents the queries are called on
    album_result,           \* what same_album_title returned
    artists_result          \* what same_artists returned

vars == <<parent, files, unreadable, pc, files_and_directories, idx, dir_contents,
          diag, probe, album_result, artists_result>>
fsvars == <<parent, files, unreadable>>
queryvars == <<probe, album_result, artists_result>>

\* --------------------------------------------------------------- helpers
RECURSIVE SeqsUpTo(_, _)
SeqsUpTo(S, n) ==
    IF n = 0 THEN {<<>>}
    ELSE LET shorter == SeqsUpTo(S, n - 1)
         IN shorter \cup {Append(s, x) : s \in {t \in shorter : Len(t) = n - 1}, x \in S}

\* The file listings of the directories 1..n holding at most budget entries in all.
RECURSIVE FileListings(_, _)
FileListings(n, budget) ==
    IF n = 0 THEN {<<>>}
    ELSE UNION {{Append(rest, l) : rest \in FileListings(n - 1, budget - Len(l))} :
                l \in SeqsUpTo(FileEntries, budget)}

Trees == {p \in [Dirs -> 0..NumDirs] : p[Root] = 0 /\ \A d \in Dirs \ {Root} : p[d] \in 1..(d - 1)}

RECURSIVE IsProperDescendant(_, _)
IsProperDescendant(a, b) ==
    /\ a # Root
    /\ \/ parent[a] = b
       \/ IsProperDescendant(parent[a], b)

Subtree(d) == {d} \cup {a \in Dirs : IsProperDescendant(a, d)}

Not(result) == [called |-> FALSE, ret |-> result]
Ret(result) == [called |-> TRUE, ret |-> result]

\* ------------------------------------------------------- fs::read_dir
\* The sub-directories of d, in listing order.
RECURSIVE ChildrenFrom(_, _)
ChildrenFrom(d, c) ==
    IF c > NumDirs THEN <<>>
    ELSE (IF parent[c] = d THEN <<SubDir(c)>> ELSE <<>>) \o ChildrenFrom(d, c + 1)

\* fs::read_dir(path): whether the listing opens, and the entries it then yields.
ReadDirOk(d) == d \notin unreadable
Listing(d) == files[d] \o ChildrenFrom(d, 2)

\* A fs::DirEntry (a walkdir::DirEntry of a directory has pos 0).
DirEntry(d, i) == [dir |-> d, pos |-> i]
EntryAt(de) == Listing(de.dir)[de.pos]

\* ------------------------------------------------------------- the walk
\* An item of the walk: Ok(entry) or Err(error), with the path it is about
\* (pos 0: the directory itself, pos i > 0: its i-th entry).
OkItem(d, i, isdir) == [ok |-> TRUE, is_dir |-> isdir, path |-> DirEntry(d, i)]
ErrItem(d, i) == [ok |-> FALSE, is_dir |-> FALSE, path |-> DirEntry(d, i)]

RECURSIVE WalkDir(_)
RECURSIVE WalkEntries(_, _)

\* Variant: a walk that yields a directory before its contents.
WalkDirParentsFirst(d) ==
    <<OkItem(d, 0, TRUE)>> \o (IF ReadDirOk(d) THEN WalkEntries(d, 1) ELSE <<ErrItem(d, 0)>>)

\* WalkDir::new(..).contents_first(true): the entries of a directory are
\* yielded before the directory itself.  A listing that cannot be opened
\* yields one error, nothing of the directory's contents, and then the
\* directory.
WalkDir(d) ==
    (IF ReadDirOk(d) THEN WalkEntries(d, 1) ELSE <<ErrItem(d, 0)>>) \o <<OkItem(d, 0, TRUE)>>

WalkEntries(d, i) ==
    IF i > Len(Listing(d)) THEN <<>>
    ELSE LET e == Listing(d)[i]
         IN (CASE e.kind = "err" -> <<ErrItem(d, i)>>
               [] e.kind = "dir" -> WalkDir(e.sub)
               [] OTHER -> <<OkItem(d, i, FALSE)>>)
            \o WalkEntries(d, i + 1)

\* .filter_entry(|e| e.file_type().is_dir()): errors pass, entries that are
\* no directories are dropped.
FilterEntry(items) == SelectSeq(items, LAMBDA it : ~it.ok \/ it.is_dir)

\* .filter(..): the errors, each of which is reported, and what is kept.
Reported(items) == SelectSeq(items, LAMBDA it : ~it.ok)
Kept(items) == SelectSeq(items, LAMBDA it : it.ok)

\* .map(|e| e.unwrap()): the walkdir::DirEntry of an Ok item.
Unwrap(items) == [k \in 1..Len(items) |-> [path |-> items[k].path, is_dir |-> items[k].is_dir]]

\* ------------------------------------------------- get_dirs_with_music
Entries(d) == [i \in 1..Len(Listing(d)) |-> DirEntry(d, i)]

\* dir_entry.as_ref().unwrap() panics on an entry whose read failed.
HasErrEntry(d) == \E i \in 1..Len(Listing(d)) : Listing(d)[i].kind = "err"

\* .filter(|dir_entry| dir_entry.as_ref().unwrap().path().is_file())
IsFile(de) == EntryAt(de).kind = "file"
\* Variant: no is_file filter.
RegularFilesUnfiltered(d) == Entries(d)
\* .filter(..is_file()) over the listing
RegularFiles(d) == SelectSeq(Entries(d), IsFile)

\* util::is_music_file: total, decided by the file alone.
is_music_file(de) == EntryAt(de).music

\* .partition(|dir_entry| util::is_music_file(dir_entry))
Music(d) == SelectSeq(RegularFiles(d), is_music_file)
\* Variant: the music candidates stay among the others.
OthersUnpartitioned(d) == RegularFiles(d)
\* the second half of the partition
Others(d) == SelectSeq(RegularFiles(d), LAMBDA de : ~is_music_file(de))

\* MusicFile::new: the entry and the metadata the tag reader found, if any.
MusicFileNew(de) == [dir_entry |-> de, music_metadata |-> EntryAt(de).meta]
\* OrdinaryFile::new
OrdinaryFileNew(de) == [dir_entry |-> de]

\* MusicFile::sort_func: by track number, then by file name (the position
\* of the entry stands for its name, unique within the directory).
TrackOf(m) == IF m.music_metadata.some THEN m.music_metadata.val.track ELSE 0
sort_func(left, right) ==
    IF TrackOf(left) # TrackOf(right)
    THEN (IF TrackOf(left) < TrackOf(right) THEN "Less" ELSE "Greater")
    ELSE IF left.dir_entry.pos # right.dir_entry.pos
    THEN (IF left.dir_entry.pos < right.dir_entry.pos THEN "Less" ELSE "Greater")
    ELSE "Equal"

\* slice::sort_by: a stable sort.
RECURSIVE Insert(_, _)
Insert(x, s) ==
    IF s = <<>> THEN <<x>>
    ELSE IF sort_func(x, Head(s)) = "Less" THEN <<x>> \o s
    ELSE <<Head(s)>> \o Insert(x, Tail(s))

RECURSIVE SortBy(_)
SortBy(s) == IF s = <<>> THEN <<>> ELSE Insert(s[Len(s)], SortBy(SubSeq(s, 1, Len(s) - 1)))

\* music.into_iter().map(MusicFile::new).filter(metadata.is_some()).collect()
WithMetadata(music) ==
    SelectSeq([k \in 1..Len(music) |-> MusicFileNew(music[k])],
              LAMBDA m : m.music_metadata.some)

\* Variant: no sort_by.
MusicFilesUnsorted(d) == WithMetadata(Music(d))
\* music_files: filtered, then sorted
MusicFiles(d) == SortBy(WithMetadata(Music(d)))
OrdinaryFiles(d) == [k \in 1..Len(Others(d)) |-> OrdinaryFileNew(Others(d)[k])]

Snapshot(dir) ==
    [dir_entry |-> dir,
     music_files |-> MusicFiles(dir.path.dir),
     ordinary_files |-> OrdinaryFiles(dir.path.dir)]

\* ------------------------------------------------------------ the scan
NoProbe == [dir_entry |-> [path |-> DirEntry(Root, 0), is_dir |-> TRUE],
            music_files |-> <<>>, ordinary_files |-> <<>>]

\* Every tree of NumDirs directories, every placing of at most MaxFiles
\* entries in it, and at most one directory that cannot be listed.
Init ==
    /\ parent \in Trees
    /\ files \in FileListings(NumDirs, MaxFiles)
    /\ unreadable \in {{}} \cup {{d} : d \in Dirs}
    /\ pc = "start"
    /\ files_and_directories = <<>>
    /\ idx = 1
    /\ dir_contents = <<>>
    /\ diag = <<>>
    /\ probe = NoProbe
    /\ album_result = Not(None)
    /\ artists_result = Not(FALSE)

\* get_list_of_dirs
get_list_of_dirs ==
    /\ pc = "start"
    /\ LET items == FilterEntry(WalkDir(Root))
       IN /\ diag' = diag \o Reported(items)
          /\ files_and_directories' = Unwrap(Kept(items))
    /\ pc' = "scan"
    /\ idx' = 1
    /\ UNCHANGED <<fsvars, dir_contents, queryvars>>

Visiting == pc = "scan" /\ idx <= Len(files_and_directories)
Current == files_and_directories[idx]

\* Variant: a skip that reports the directory it skips.
SkipUnreadableReported ==
    /\ Visiting
    /\ ~Current.is_dir \/ ~ReadDirOk(Current.path.dir)
    /\ idx' = idx + 1
    /\ diag' = Append(diag, ErrItem(Current.path.dir, 0))
    /\ UNCHANGED <<fsvars, pc, files_and_directories, dir_contents, queryvars>>

\* The loop body when the entry is no directory or fs::read_dir fails.
SkipUnreadable ==
    /\ Visiting
    /\ ~Current.is_dir \/ ~ReadDirOk(Current.path.dir)
    /\ idx' = idx + 1
    /\ UNCHANGED <<fsvars, pc, files_and_directories, dir_contents, diag, queryvars>>

\* The loop body when reading an entry of the listing fails: unwrap panics.
PanicOnEntry ==
    /\ Visiting
    /\ Current.is_dir /\ ReadDirOk(Current.path.dir)
    /\ HasErrEntry(Current.path.dir)
    /\ pc' = "panicked"
    /\ UNCHANGED <<fsvars, files_and_directories, idx, dir_contents, diag, queryvars>>

\* The loop body when the listing holds no music candidate.
SkipNoMusic ==
    /\ Visiting
    /\ Current.is_dir /\ ReadDirOk(Current.path.dir)
    /\ ~HasErrEntry(Current.path.dir)
    /\ ~(Len(Music(Current.path.dir)) > 0)
    /\ idx' = idx + 1
    /\ UNCHANGED <<fsvars, pc, files_and_directories, dir_contents, diag, queryvars>>

\* The loop body when the listing holds a music candidate.
PushSnapshot ==
    /\ Visiting
    /\ Current.is_dir /\ ReadDirOk(Current.path.dir)
    /\ ~HasErrEntry(Current.path.dir)
    /\ Len(Music(Current.path.dir)) > 0
    /\ dir_contents' = Append(dir_contents, Snapshot(Current))
    /\ idx' = idx + 1
    /\ UNCHANGED <<fsvars, pc, files_and_directories, diag, queryvars>>

\* The loop is over: get_dirs_with_music and DirContents::new return dir_contents.
Return ==
    /\ pc = "scan"
    /\ idx > Len(files_and_directories)
    /\ pc' = "done"
    /\ UNCHANGED <<fsvars, files_and_directories, idx, dir_contents, diag, queryvars>>

Next ==
    \/ get_list_of_dirs
    \/ SkipUnreadable
    \/ PanicOnEntry
    \/ SkipNoMusic
    \/ PushSnapshot
    \/ Return

Spec == Init /\ [][Next]_vars

\* ---------------------------------------------------------- the queries
\* .filter_map(|m| m.music_metadata.as_ref()): the metadata that is present.
PresentMetadata(dc) ==
    LET tagged == SelectSeq(dc.music_files, LAMBDA m : m.music_metadata.some)
    IN [k \in 1..Len(tagged) |-> tagged[k].music_metadata.val]

\* The for loop of both queries: the first value that differs from first ends it.
RECURSIVE AllEqualTo(_, _, _)
AllEqualTo(values, first, k) ==
    IF k > Len(values) THEN TRUE
    ELSE IF values[k] # first THEN FALSE
    ELSE AllEqualTo(values, first, k + 1)

\* Variant: the first album, compared with nothing.
same_album_title_first(dc) ==
    LET albums == [k \in 1..Len(PresentMetadata(dc)) |-> PresentMetadata(dc)[k].album]
    IN IF Len(albums) > 0 THEN Some(albums[1]) ELSE None

\* DirContents::same_album_title
same_album_title(dc) ==
    LET albums == [k \in 1..Len(PresentMetadata(dc)) |-> PresentMetadata(dc)[k].album]
    IN IF Len(albums) > 0
       THEN (IF AllEqualTo(albums, albums[1], 1) THEN Some(albums[1]) ELSE None)
       ELSE None

\* Variant: true of a directory without metadata.
same_artists_vacuous(dc) ==
    LET artists == [k \in 1..Len(PresentMetadata(dc)) |-> PresentMetadata(dc)[k].artist]
    IN IF Len(artists) > 0 THEN AllEqualTo(artists, artists[1], 1) ELSE TRUE

\* DirContents::same_artists
same_artists(dc) ==
    LET artists == [k \in 1..Len(PresentMetadata(dc)) |-> PresentMetadata(dc)[k].artist]
    IN IF Len(artists) > 0
       THEN (IF AllEqualTo(artists, artists[1], 1) THEN TRUE ELSE FALSE)
       ELSE FALSE

\* The DirContents the queries are tried on: music files with and without
\* metadata, in every order.
OptMetadata == {None} \cup {Some(m) : m \in Metadata}
Probes ==
    {[dir_entry |-> NoProbe.dir_entry,
      music_files |-> [k \in 1..Len(metas) |->
                          [dir_entry |-> DirEntry(Root, k), music_metadata |-> metas[k]]],
      ordinary_files |-> <<>>] : metas \in SeqsUpTo(OptMetadata, MaxMusic)}

QueryInit ==
    /\ parent = [d \in Dirs |-> d - 1]
    /\ files = [d \in Dirs |-> <<>>]
    /\ unreadable = {}
    /\ pc = "query"
    /\ files_and_directories = <<>>
    /\ idx = 1
    /\ dir_contents = <<>>
    /\ diag = <<>>
    /\ probe \in Probes
    /\ album_result = Not(None)
    /\ artists_result = Not(FALSE)

CallSameAlbumTitle ==
    /\ pc = "query"
    /\ album_result' = Ret(same_album_title(probe))
    /\ UNCHANGED <<fsvars, pc, files_and_directories, idx, dir_contents, diag, probe,
                   artists_result>>

CallSameArtists ==
    /\ pc = "query"
    /\ artists_result' = Ret(same_artists(probe))
    /\ UNCHANGED <<fsvars, pc, files_and_directories, idx, dir_contents, diag, probe,
                   album_result>>

QueryNext ==
    \/ CallSameAlbumTitle
    \/ CallSameArtists

QuerySpec == QueryInit /\ [][QueryNext]_vars

\* =============================================================== claims
\* What the file system holds, read off files, parent and unreadable alone.
SnapDir(S) == S.dir_entry.path.dir
Snapshots == {dir_contents[k] : k \in 1..Len(dir_contents)}
Reached == {files_and_directories[k].path.dir : k \in 1..Len(files_and_directories)}
\* What DirContents::new hands to its caller: nothing unless it returns.
Returned == IF pc = "done" THEN {SnapDir(S) : S \in Snapshots} ELSE {}

RegularAt(d) == {i \in 1..Len(files[d]) : files[d][i].kind = "file"}
CandidatesAt(d) == {i \in RegularAt(d) : files[d][i].music}
ValidMusicAt(d) == {i \in CandidatesAt(d) : files[d][i].meta.some}
RejectedAt(d) == {i \in RegularAt(d) : ~files[d][i].music}
EntryFails(d) == \E i \in 1..Len(files[d]) : files[d][i].kind = "err"
Healthy(q) == \A d \in Subtree(q) : d \notin unreadable /\ ~EntryFails(d)

PosSet(recs) == {recs[k].dir_entry.pos : k \in 1..Len(recs)}
WalkIndex(d) == CHOOSE k \in 1..Len(files_and_directories) : files_and_directories[k].path.dir = d

RECURSIVE IsSubseq(_, _)
IsSubseq(s, t) ==
    IF s = <<>> THEN TRUE
    ELSE IF t = <<>> THEN FALSE
    ELSE IF Head(s) = Head(t) THEN IsSubseq(Tail(s), Tail(t))
    ELSE IsSubseq(s, Tail(t))

\* C1: when the scan has returned, a visited directory whose listing opens
\* has a snapshot in the output if and only if it holds a regular file that
\* is music and whose metadata was read; no snapshot has an empty
\* music_files.
C1_SnapshotIffValidMusic ==
    pc = "done" =>
        /\ \A d \in Reached : ReadDirOk(d) => (d \in Returned <=> ValidMusicAt(d) # {})
        /\ \A S \in Snapshots : S.music_files # <<>>

\* C2: every entry of ordinary_files is a regular file of the snapshot's own
\* directory that is_music_file rejected; every entry of music_files is one
\* it accepted, carrying the metadata that was read; nothing else is listed.
C2_ListsHoldOnlyClassifiedFiles ==
    \A S \in Snapshots :
        /\ \A k \in 1..Len(S.ordinary_files) :
              LET o == S.ordinary_files[k].dir_entry
              IN o.dir = SnapDir(S) /\ o.pos \in RejectedAt(SnapDir(S))
        /\ \A k \in 1..Len(S.music_files) :
              LET m == S.music_files[k]
              IN /\ m.dir_entry.dir = SnapDir(S)
                 /\ m.dir_entry.pos \in CandidatesAt(SnapDir(S))
                 /\ m.music_metadata.some
                 /\ m.music_metadata = files[SnapDir(S)][m.dir_entry.pos].meta

C2_Witness ==
    \E S \in Snapshots :
        /\ S.music_files # <<>>
        /\ S.ordinary_files # <<>>
        /\ \E i \in 1..Len(Listing(SnapDir(S))) : Listing(SnapDir(S))[i].kind \in {"dir", "other"}

\* C3: same_album_title returns Some(a) exactly when a music file has
\* metadata and every music file with metadata has album a, and None
\* exactly when none has metadata or two albums differ; the DirContents is
\* left as it was.
C3_AlbumCorrect(r, dc) ==
    LET T == {k \in 1..Len(dc.music_files) : dc.music_files[k].music_metadata.some}
        album(k) == dc.music_files[k].music_metadata.val.album
    IN /\ r \in {None} \cup {Some(a) : a \in Albums}
       /\ \A a \in Albums : r = Some(a) <=> (T # {} /\ \A k \in T : album(k) = a)
       /\ r = None <=> (T = {} \/ \E j, k \in T : album(j) # album(k))

C3_SameAlbumTitle ==
    [][/\ album_result'.called => C3_AlbumCorrect(album_result'.ret, probe)
       /\ probe' = probe]_vars

C3_Witness ==
    /\ album_result.called
    /\ album_result.ret.some
    /\ Len(probe.music_files) = MaxMusic
    /\ \E k \in 1..Len(probe.music_files) : ~probe.music_files[k].music_metadata.some

\* C4: same_artists returns true exactly when a music file has metadata and
\* all music files with metadata have the same artist.
C4_SameArtists ==
    artists_result.called =>
        LET T == {k \in 1..Len(probe.music_files) : probe.music_files[k].music_metadata.some}
            artist(k) == probe.music_files[k].music_metadata.val.artist
        IN artists_result.ret = (T # {} /\ \A j, k \in T : artist(j) = artist(k))

C4_Witness ==
    /\ artists_result.called
    /\ artists_result.ret = FALSE
    /\ probe.music_files # <<>>
    /\ \A k \in 1..Len(probe.music_files) : ~probe.music_files[k].music_metadata.some

\* C5: no failure of the file system aborts the scan.
C5_ScanNeverAborts == pc # "panicked"

\* C6: when the walk reported that a sub-directory cannot be listed, then,
\* once the scan has ended, the error was reported, no directory of that
\* subtree is in the output, and every directory outside it that is not one
\* of its ancestors, has no failure in its own subtree and holds music with
\* metadata is in the output.
C6_FailingSubtreeOnly ==
    pc \in {"done", "panicked"} =>
        \A p \in (unreadable \cap Reached) \ {Root} :
            /\ \E k \in 1..Len(diag) : diag[k] = ErrItem(p, 0)
            /\ \A d \in Subtree(p) : d \notin Returned
            /\ \A q \in Dirs \ Subtree(p) :
                  (~IsProperDescendant(p, q) /\ Healthy(q) /\ ValidMusicAt(q) # {})
                      => q \in Returned

\* C7: a snapshot of a directory comes before the snapshot of each of its
\* ancestors, and the snapshots follow the order of the walk.
C7_ContentsFirstOrder ==
    /\ \A i, j \in 1..Len(dir_contents) :
          IsProperDescendant(SnapDir(dir_contents[i]), SnapDir(dir_contents[j])) => i < j
    /\ IsSubseq([k \in 1..Len(dir_contents) |-> dir_contents[k].dir_entry],
                files_and_directories)

C7_Witness ==
    /\ \E i, j \in 1..Len(dir_contents) :
          IsProperDescendant(SnapDir(dir_contents[i]), SnapDir(dir_contents[j]))
    /\ pc = "done"
    /\ Len(dir_contents) < Len(files_and_directories)

\* C8: in every snapshot music_files is in the order of sort_func, whatever
\* the order of the listing, and sorting it again changes nothing.
C8_MusicFilesSorted ==
    \A S \in Snapshots :
        /\ \A k \in 1..(Len(S.music_files) - 1) :
              sort_func(S.music_files[k + 1], S.music_files[k]) # "Less"
        /\ \A j, k \in 1..Len(S.music_files) :
              j < k => TrackOf(S.music_files[j]) <= TrackOf(S.music_files[k])
        /\ SortBy(S.music_files) = S.music_files

C8_Witness ==
    \E S \in Snapshots :
        /\ Len(S.music_files) = 2
        /\ S.music_files[1].dir_entry.pos > S.music_files[2].dir_entry.pos

\* C9: visiting a directory whose listing cannot be opened adds no snapshot,
\* reports nothing and moves on to the next directory.
C9_UnreadableSkippedSilently ==
    [][(Visiting /\ ~ReadDirOk(Current.path.dir)) =>
          /\ dir_contents' = dir_contents
          /\ diag' = diag
          /\ idx' = idx + 1
          /\ pc' = "scan"]_vars

C9_Witness ==
    /\ pc = "done"
    /\ \E p \in unreadable \cap Reached :
          /\ \E S \in Snapshots : WalkIndex(SnapDir(S)) < WalkIndex(p)
          /\ \E S \in Snapshots : WalkIndex(SnapDir(S)) > WalkIndex(p)

\* C10: in a snapshot every regular file of the directory is in exactly one
\* place: ordinary_files if rejected, music_files if accepted with metadata,
\* dropped if accepted without; none is listed twice; a directory has at
\* most one snapshot.
C10_PartitionConserved ==
    /\ \A S \in Snapshots :
          LET d == SnapDir(S)
              M == PosSet(S.music_files)
              O == PosSet(S.ordinary_files)
          IN /\ Cardinality(M) = Len(S.music_files)
             /\ Cardinality(O) = Len(S.ordinary_files)
             /\ M \cap O = {}
             /\ M = ValidMusicAt(d)
             /\ O = RejectedAt(d)
             /\ Len(S.music_files) + Len(S.ordinary_files)
                  + Cardinality(CandidatesAt(d) \ ValidMusicAt(d)) = Cardinality(RegularAt(d))
    /\ \A i, j \in 1..Len(dir_contents) :
          SnapDir(dir_contents[i]) = SnapDir(dir_contents[j]) => i = j

C10_Witness ==
    \E S \in Snapshots :
        /\ S.music_files # <<>>
        /\ CandidatesAt(SnapDir(S)) \ ValidMusicAt(SnapDir(S)) # {}

====
